---------------------------- MODULE Spec2Model ----------------------------
(***************************************************************************)
(* A model of src/sollama.py: the Ollama TTS assistant.                    *)
(*                                                                         *)
(* Five specifications share this module.                                  *)
(*   Spec       the main flow (OllamaTTS.run, handle_command,              *)
(*              ask_ollama_with_context) running against the background    *)
(*              worker thread (tts_worker) over tts_queue.  Text is        *)
(*              abstract here: a job is named by its push number.          *)
(*   SpecStream one streaming turn of ask_ollama_with_context at the level *)
(*              of characters: line decoding, full_response, text_buffer,  *)
(*              extract_sentences and the jobs handed to                   *)
(*              speak_text_immediate.                                      *)
(*   SpecMem    ConversationMemory and its persistence.                    *)
(*   SpecLive   Spec with the worker thread scheduled fairly.              *)
(*   SpecAudio  the rate, volume, voice and mute commands at the prompt    *)
(*              while the worker renders what a failed turn left queued.   *)
(***************************************************************************)
EXTENDS Integers, Sequences, FiniteSets, TLC

VARIABLES
    \* ---- Spec: main flow and worker thread
    pc,                    \* where the main thread is
    stop_ctx,              \* who called stop_tts_thread: "turn" or "exit"
    use_streaming,         \* OllamaTTS.use_streaming
    speak_while_streaming, \* OllamaTTS.speak_while_streaming
    tts_available,         \* OllamaTTS.tts_available
    muted,                 \* OllamaTTS.muted (absent attribute = FALSE)
    last_response,         \* OllamaTTS.last_response: "" or "answer"
    turn_live,             \* this turn entered the live-narration branch
    got_text,              \* the answer of this turn is non-blank
    tts_queue,             \* queue.Queue contents, head first
    unfinished_tasks,      \* queue.Queue.unfinished_tasks
    tts_stop_event,        \* threading.Event
    tts_thread,            \* OllamaTTS.tts_thread: 0 is None, else a thread
    wpc,                   \* each worker thread's position in tts_worker
    wjob,                  \* the job a worker thread holds (0: none)
    main_speaking,         \* the main thread is inside _speak_text_engine
    npushed,               \* jobs put on tts_queue so far (job = its number)
    started,               \* jobs in the order the workers began rendering
    finished,              \* jobs whose render has returned
    purged,                \* jobs removed by stop_tts_thread's purge
    stop_snapshot,         \* jobs in tts_queue when stop_tts_thread was called
    last_failed,           \* the job whose render raised last (0: none)
    stop_entry,            \* the worker and queue as stop_tts_thread found them
    raise_snapshot,        \* jobs not yet rendered when a stream last raised
    \* ---- SpecStream: one streaming turn, character by character
    full_response,         \* ask_ollama_with_context: full_response
    text_buffer,           \* ask_ollama_with_context: text_buffer
    jobs,                  \* texts put on tts_queue during the turn, in order
    fragments,             \* the non-empty 'response' texts read, in order
    last_line,             \* the line (or stream event) consumed last
    turn_error,            \* "none", or the exception that ended the turn
    response,              \* what run received from ask_ollama_with_context
    flushed,               \* the jobs put by the `done` branch of the loop
    \* ---- SpecMem: ConversationMemory and its file
    system_prompt,         \* ConversationMemory.system_prompt
    conversation_history,  \* ConversationMemory.conversation_history
    max_history,           \* ConversationMemory.max_history
    conversation_start_time, \* ConversationMemory.conversation_start_time
    now,                   \* the clock read by datetime.now()
    disk,                  \* the memory file at the path in use
    nadded,                \* exchanges passed to add_exchange so far
    mem_op,                \* the last ConversationMemory operation and result
    mem_before,            \* the memory as it was before that operation
    adds_since_empty,      \* add_exchange calls since the history was emptied
    disk_saved,            \* what save_memory wrote, while the file is that one
    \* ---- audio settings and the engines that render
    TTS_ENGINE,            \* the module global: "pyttsx3", "sapi" or "none"
    speech_rate,           \* OllamaTTS.speech_rate
    volume,                \* OllamaTTS.volume, in tenths
    volume_before_mute,    \* OllamaTTS.volume_before_mute, in tenths
    current_voice_id,      \* OllamaTTS.current_voice_id: 0 is None
    tts_engine,            \* the engine of each _speak_text_engine call in
                           \* progress, by thread (0: the main thread)
    audio_at_get,          \* the audio settings when a worker took its job
    ncommands              \* rate, volume and voice commands handled so far

cvars == <<pc, stop_ctx, use_streaming, speak_while_streaming, tts_available,
           muted, last_response, turn_live, got_text, tts_queue,
           unfinished_tasks, tts_stop_event, tts_thread, wpc, wjob,
           main_speaking, npushed, started, finished, purged, stop_snapshot>>

settings == <<use_streaming, speak_while_streaming, tts_available, muted,
              last_response>>

svars == <<full_response, text_buffer, jobs, fragments, last_line,
           turn_error, response, flushed>>

mvars == <<system_prompt, conversation_history, max_history,
           conversation_start_time, now, disk, nadded, mem_op, mem_before,
           adds_since_empty, disk_saved>>

hvars == <<last_failed, stop_entry, raise_snapshot>>

avars == <<TTS_ENGINE, speech_rate, volume, volume_before_mute,
           current_voice_id, tts_engine, audio_at_get, ncommands>>

vars == <<cvars, svars, mvars, hvars, avars>>

\* ---------------------------------------------------------------- bounds
\* Jobs pushed to tts_queue in one session.
MaxJobs == 3
\* Thread slots; a slot is free again once its thread is dead.
NThreads == 2

\* The thread slots.
Threads == 1..NThreads

\* ---------------------------------------------------- the audio settings
\* Volumes are in tenths: 10 is 1.0.  Steps of 0.1 are exact here; the
\* rounding of Python floats is left out.

\* OllamaTTS.__init__: `speech_rate=175, volume=1.0`.
DefaultRate == 175
FullVolume == 10

\* handle_command 'faster' / 'slower': min(300, rate + 25), max(50, rate - 25).
MinRate == 50
MaxRate == 300
RateStep == 25

\* Voices the pyttsx3 engine lists (ids 1..NVoices; 0 is None).
NVoices == 2
\* Rate, volume and voice commands in one session.
MaxCommands == 2
\* Jobs a failed turn left queued when the audio commands begin.
MaxQueued == 1

\* --rate values: the default and one on each side of 50..300.
RateArgs == {40, DefaultRate, 310}
\* 'volume x' arguments, in tenths.
VolumeArgs == {-1, 0, 5, FullVolume, 11}

Min(a, b) == IF a < b THEN a ELSE b
Max(a, b) == IF a > b THEN a ELSE b

\* The settings the commands change.
audio_settings == <<TTS_ENGINE, speech_rate, volume, volume_before_mute,
                    current_voice_id>>

\* A property of an engine that the program has not set.
EngineDefault == -1

\* No _speak_text_engine call in progress.
NoEngine == [kind |-> "none", rate |-> EngineDefault,
             volume |-> EngineDefault, voice |-> 0]

\* _speak_text_engine: the engine that will speak.  With pyttsx3 a new
\* engine gets setProperty('rate', self.speech_rate), setProperty('volume',
\* self.volume) and, when current_voice_id is set, setProperty('voice',
\* ...).  With SAPI a new SpVoice is dispatched and Speak is called: no
\* property is set.  With no engine the method returns.
RenderEngine ==
    IF TTS_ENGINE = "pyttsx3"
    THEN [kind |-> "pyttsx3", rate |-> speech_rate, volume |-> volume,
          voice |-> current_voice_id]
    ELSE IF TTS_ENGINE = "sapi"
    THEN [kind |-> "sapi", rate |-> EngineDefault, volume |-> EngineDefault,
          voice |-> 0]
    ELSE NoEngine

\* The audio settings as they are now.
AudioNow == [rate |-> speech_rate, volume |-> volume,
             voice |-> current_voice_id, muted |-> muted]
NoAudio == [rate |-> 0, volume |-> 0, voice |-> 0, muted |-> FALSE]

\* OllamaTTS.__init__ and main's `if args.mute:` for an engine, a --rate
\* and a --volume.  volume_before_mute does not exist until --mute or the
\* first mute / unmute command, and is not read before a mute assigns it:
\* it holds the --volume until then.
AudioInit(engine, rate, vol) ==
    /\ TTS_ENGINE = engine
    /\ speech_rate = rate
    /\ volume = IF muted THEN 0 ELSE vol
    /\ volume_before_mute = vol
    /\ current_voice_id = 0
    /\ tts_engine = [t \in 0..NThreads |-> NoEngine]
    /\ audio_at_get = [t \in 1..NThreads |-> NoAudio]
    /\ ncommands = 0

\* ------------------------------------------------------------ the worker
\* threading.Thread.is_alive() for a thread slot.
IsAlive(t) == wpc[t] \in {"check", "get", "render"}

\* The number of _speak_text_engine calls in progress.
RendersInProgress ==
    Cardinality({t \in Threads : wpc[t] = "render"})
        + (IF main_speaking THEN 1 ELSE 0)

\* tts_worker: `while not self.tts_stop_event.is_set()`.
WorkerCheck(t) ==
    /\ wpc[t] = "check"
    /\ wpc' = [wpc EXCEPT ![t] = IF tts_stop_event THEN "dead" ELSE "get"]
    /\ UNCHANGED <<pc, stop_ctx, settings, turn_live, got_text, tts_queue,
                   unfinished_tasks, tts_stop_event, tts_thread, wjob,
                   main_speaking, npushed, started, finished, purged,
                   stop_snapshot>>
    /\ UNCHANGED <<svars, mvars, hvars>>
    /\ UNCHANGED avars

\* tts_worker: `text = self.tts_queue.get(timeout=0.1)`.  With an item the
\* worker takes the head and calls _speak_text_engine (every queued text is
\* non-blank: speak_text_immediate strips and tests it); on queue.Empty it
\* goes back to the loop test.
WorkerGet(t) ==
    /\ wpc[t] = "get"
    /\ IF tts_queue # <<>>
       THEN /\ wjob' = [wjob EXCEPT ![t] = Head(tts_queue)]
            /\ tts_queue' = Tail(tts_queue)
            /\ started' = Append(started, Head(tts_queue))
            /\ wpc' = [wpc EXCEPT ![t] = "render"]
       ELSE /\ wpc' = [wpc EXCEPT ![t] = "check"]
            /\ UNCHANGED <<wjob, tts_queue, started>>
    /\ UNCHANGED <<pc, stop_ctx, settings, turn_live, got_text,
                   unfinished_tasks, tts_stop_event, tts_thread,
                   main_speaking, npushed, finished, purged, stop_snapshot>>
    /\ UNCHANGED <<svars, mvars, hvars>>
    /\ IF tts_queue # <<>>
       THEN /\ tts_engine' = [tts_engine EXCEPT ![t] = RenderEngine]
            /\ audio_at_get' = [audio_at_get EXCEPT ![t] = AudioNow]
       ELSE UNCHANGED <<tts_engine, audio_at_get>>
    /\ UNCHANGED <<audio_settings, ncommands>>

\* A _speak_text_engine that lets the engine's exception out.
RenderReturnsOnSuccess(ok) == ok

\* _speak_text_engine: the engine calls are inside `try: ... except
\* Exception: pass`, so the method returns normally whether the engine
\* spoke the text (ok) or raised.
RenderReturns(ok) == TRUE

\* tts_worker: _speak_text_engine is over, then
\* `self.tts_queue.task_done()`.  An exception leaving _speak_text_engine
\* would reach the worker's `except Exception`, which prints it and loops
\* without task_done.
WorkerRenderDone(t, ok) ==
    /\ wpc[t] = "render"
    /\ last_failed' = IF ok THEN last_failed ELSE wjob[t]
    /\ IF RenderReturns(ok)
       THEN /\ finished' = finished \cup {wjob[t]}
            /\ unfinished_tasks' = unfinished_tasks - 1
       ELSE UNCHANGED <<finished, unfinished_tasks>>
    /\ wjob' = [wjob EXCEPT ![t] = 0]
    /\ wpc' = [wpc EXCEPT ![t] = "check"]
    /\ UNCHANGED <<pc, stop_ctx, settings, turn_live, got_text, tts_queue,
                   tts_stop_event, tts_thread, main_speaking, npushed,
                   started, purged, stop_snapshot>>
    /\ UNCHANGED <<stop_entry, raise_snapshot>>
    /\ UNCHANGED <<svars, mvars>>
    /\ tts_engine' = [tts_engine EXCEPT ![t] = NoEngine]
    /\ audio_at_get' = [audio_at_get EXCEPT ![t] = NoAudio]
    /\ UNCHANGED <<audio_settings, ncommands>>

\* ------------------------------------------- the conversation memory
\* Exchanges passed to add_exchange in one session.
MaxAdds == 3
\* Answers stored by run in one session with narration.
MaxStored == 2

\* A JSON list / Python list value, and None (JSON null).
ListOf(items) == [kind |-> "list", items |-> items]
NoneValue == [kind |-> "None", items |-> <<>>]

\* adds_since_empty once load_memory has replaced the history.
NotCounted == -1

\* A message of the history.
Message(role, content) == [role |-> role, content |-> content]

\* The two messages add_exchange appends for exchange n.
ExchangeMessages(n) == <<Message("user", n), Message("assistant", n)>>

\* A trim that drops one message.
TrimHistoryOne(items) ==
    IF Len(items) > max_history THEN SubSeq(items, 2, Len(items)) ELSE items

\* add_exchange: `if len(self.conversation_history) > self.max_history:
\* self.conversation_history = self.conversation_history[2:]`.
TrimHistory(items) ==
    IF Len(items) > max_history THEN SubSeq(items, 3, Len(items)) ELSE items

\* The three fields an operation may overwrite.
MemorySnapshot ==
    [system_prompt |-> system_prompt,
     conversation_history |-> conversation_history,
     conversation_start_time |-> conversation_start_time]

\* ------------------------------------------------------- the main thread
\* A start_tts_thread without the is_alive test: a thread per call.
NeedsNewThreadAlways == TRUE

\* start_tts_thread: `self.tts_thread is None or not self.tts_thread.is_alive()`.
NeedsNewThread == IF tts_thread = 0 THEN TRUE ELSE ~IsAlive(tts_thread)

\* A slot for a new threading.Thread.
FreeSlot == CHOOSE t \in Threads : ~IsAlive(t)

\* __init__: `self.tts_queue = queue.Queue()`: maxsize 0, no capacity.
MaxSize == 0

\* A queue that holds one item.
QueueFullAtOne == Len(tts_queue) >= 1

\* queue.Queue.put blocks while `0 < maxsize <= qsize()`.
QueueFull == MaxSize > 0 /\ Len(tts_queue) >= MaxSize

\* A speak_text_immediate that is not guarded by the live branch.
EnqueuesAnyTurn == tts_available /\ ~muted

\* speak_text_immediate puts text.strip() on the queue unless TTS is
\* unavailable, the text is blank, or audio is muted.  The callers test
\* speak_while_streaming and tts_available themselves (turn_live).
Enqueues == turn_live /\ tts_available /\ ~muted

\* speak_text reaches _speak_text_engine unless muted (TTS_ENGINE is present
\* and the text is non-blank at every call in this model).
SpeakTextRenders == ~muted

\* run: the user's line is not a command: ask_ollama_with_context begins.
\* requests.post may raise (ok = FALSE): the turn ends in run's
\* `except Exception` with nothing changed.  In streaming mode the live
\* branch calls start_tts_thread.  Without streaming the whole answer
\* arrives at once (blank or not) and the method returns.
Ask(ok, nonblank) ==
    /\ pc = "prompt"
    /\ IF ~ok
       THEN UNCHANGED <<pc, turn_live, got_text, tts_stop_event, tts_thread,
                        wpc>>
       ELSE IF use_streaming
       THEN /\ pc' = "stream"
            /\ got_text' = FALSE
            /\ turn_live' = (speak_while_streaming /\ tts_available)
            /\ IF speak_while_streaming /\ tts_available /\ NeedsNewThread
               THEN /\ \E t \in Threads : ~IsAlive(t)
                    /\ tts_stop_event' = FALSE
                    /\ tts_thread' = FreeSlot
                    /\ wpc' = [wpc EXCEPT ![FreeSlot] = "check"]
               ELSE UNCHANGED <<tts_stop_event, tts_thread, wpc>>
       ELSE /\ pc' = "returned"
            /\ got_text' = nonblank
            /\ turn_live' = FALSE
            /\ UNCHANGED <<tts_stop_event, tts_thread, wpc>>
    /\ UNCHANGED <<stop_ctx, settings, tts_queue, unfinished_tasks, wjob,
                   main_speaking, npushed, started, finished, purged,
                   stop_snapshot>>
    /\ UNCHANGED <<svars, mvars, hvars>>
    /\ UNCHANGED avars

\* The streaming loop reads a chunk with non-blank 'response' text.  When
\* extract_sentences yields a sentence (sentence = TRUE) it goes to
\* speak_text_immediate, one job per step.
StreamChunk(sentence) ==
    /\ pc = "stream"
    /\ got_text' = TRUE
    /\ IF sentence /\ Enqueues
       THEN /\ npushed < MaxJobs
            /\ ~QueueFull
            /\ npushed' = npushed + 1
            /\ tts_queue' = Append(tts_queue, npushed + 1)
            /\ unfinished_tasks' = unfinished_tasks + 1
       ELSE UNCHANGED <<npushed, tts_queue, unfinished_tasks>>
    /\ UNCHANGED <<pc, stop_ctx, settings, turn_live, tts_stop_event,
                   tts_thread, wpc, wjob, main_speaking, started, finished,
                   purged, stop_snapshot>>
    /\ UNCHANGED <<svars, mvars, hvars>>
    /\ UNCHANGED avars

\* The loop ends: a chunk with done (the residual text_buffer, when
\* non-blank, is spoken first: flush = TRUE) or the line iterator is
\* exhausted (flush = FALSE).  The live branch goes on to tts_queue.join().
StreamDone(flush) ==
    /\ pc = "stream"
    /\ flush => got_text
    /\ IF flush /\ Enqueues
       THEN /\ npushed < MaxJobs
            /\ ~QueueFull
            /\ npushed' = npushed + 1
            /\ tts_queue' = Append(tts_queue, npushed + 1)
            /\ unfinished_tasks' = unfinished_tasks + 1
       ELSE UNCHANGED <<npushed, tts_queue, unfinished_tasks>>
    /\ pc' = IF turn_live THEN "join" ELSE "returned"
    /\ UNCHANGED <<stop_ctx, settings, turn_live, got_text, tts_stop_event,
                   tts_thread, wpc, wjob, main_speaking, started, finished,
                   purged, stop_snapshot>>
    /\ UNCHANGED <<svars, mvars, hvars>>
    /\ UNCHANGED avars

\* A handler that shuts narration down when a turn fails.
ExceptStops == "stop_call"

\* run: `except Exception as e:` prints the error and the `while True`
\* loop goes on to the next prompt.
ExceptResumesAt == "prompt"

\* The jobs waiting in tts_queue or being rendered by a worker.
Pending ==
    {tts_queue[i] : i \in 1..Len(tts_queue)}
        \cup {wjob[t] : t \in {u \in Threads : wpc[u] = "render"}}

\* An exception leaves the streaming loop (a RequestException re-raised as
\* Exception, or one raised while decoding a line): run's `except
\* Exception` prints it and prompts again.  The queue and the worker are
\* left as they are.
StreamRaise ==
    /\ pc = "stream"
    /\ pc' = ExceptResumesAt
    /\ raise_snapshot' = Pending
    /\ UNCHANGED <<stop_ctx, settings, turn_live, got_text, tts_queue,
                   unfinished_tasks, tts_stop_event, tts_thread, wpc, wjob,
                   main_speaking, npushed, started, finished, purged,
                   stop_snapshot>>
    /\ UNCHANGED <<last_failed, stop_entry>>
    /\ UNCHANGED <<svars, mvars>>
    /\ UNCHANGED avars

\* A drain that only waits for the queue to be empty.
JoinReleasedOnEmpty == tts_queue = <<>>

\* Queue.join(): returns once unfinished_tasks is zero.
JoinReleased == unfinished_tasks = 0

\* `self.tts_queue.join()` returns and stop_tts_thread is entered.
TtsQueueJoin ==
    /\ pc = "join"
    /\ JoinReleased
    /\ pc' = "stop_call"
    /\ stop_ctx' = "turn"
    /\ UNCHANGED <<settings, turn_live, got_text, tts_queue,
                   unfinished_tasks, tts_stop_event, tts_thread, wpc, wjob,
                   main_speaking, npushed, started, finished, purged,
                   stop_snapshot>>
    /\ UNCHANGED <<svars, mvars, hvars>>
    /\ UNCHANGED avars

\* The worker thread has run and is no longer alive.
WorkerStopped == IF tts_thread = 0 THEN FALSE ELSE ~IsAlive(tts_thread)

\* stop_entry when stop_tts_thread found no stopped worker.
NotStopped == [stopped |-> FALSE, tts_queue |-> <<>>, unfinished_tasks |-> 0,
               tts_stop_event |-> FALSE, tts_thread |-> 0]

\* stop_tts_thread: `self.tts_stop_event.set()`.
StopSetEvent ==
    /\ pc = "stop_call"
    /\ tts_stop_event' = TRUE
    /\ stop_snapshot' = {tts_queue[i] : i \in 1..Len(tts_queue)}
    /\ stop_entry' = IF WorkerStopped
                     THEN [stopped |-> TRUE, tts_queue |-> tts_queue,
                           unfinished_tasks |-> unfinished_tasks,
                           tts_stop_event |-> tts_stop_event,
                           tts_thread |-> tts_thread]
                     ELSE NotStopped
    /\ pc' = "stop_purge"
    /\ UNCHANGED <<stop_ctx, settings, turn_live, got_text, tts_queue,
                   unfinished_tasks, tts_thread, wpc, wjob, main_speaking,
                   npushed, started, finished, purged>>
    /\ UNCHANGED <<last_failed, raise_snapshot>>
    /\ UNCHANGED <<svars, mvars>>
    /\ UNCHANGED avars

\* stop_tts_thread: one pass of `while not self.tts_queue.empty()`:
\* get_nowait() takes the head, or the loop ends.
StopPurge ==
    /\ pc = "stop_purge"
    /\ IF tts_queue # <<>>
       THEN /\ tts_queue' = Tail(tts_queue)
            /\ purged' = purged \cup {Head(tts_queue)}
            /\ pc' = "stop_task_done"
       ELSE /\ pc' = "stop_join"
            /\ UNCHANGED <<tts_queue, purged>>
    /\ UNCHANGED <<stop_ctx, settings, turn_live, got_text, unfinished_tasks,
                   tts_stop_event, tts_thread, wpc, wjob, main_speaking,
                   npushed, started, finished, stop_snapshot>>
    /\ UNCHANGED <<svars, mvars, hvars>>
    /\ UNCHANGED avars

\* A purge that takes items without task_done.
StopTaskDoneNoCount ==
    /\ pc = "stop_task_done"
    /\ pc' = "stop_purge"
    /\ UNCHANGED <<stop_ctx, settings, turn_live, got_text, tts_queue,
                   unfinished_tasks, tts_stop_event, tts_thread, wpc, wjob,
                   main_speaking, npushed, started, finished, purged,
                   stop_snapshot>>
    /\ UNCHANGED <<svars, mvars, hvars>>
    /\ UNCHANGED avars

\* stop_tts_thread: `self.tts_queue.task_done()` for the item the purge
\* took, then the loop test again.
StopTaskDone ==
    /\ pc = "stop_task_done"
    /\ unfinished_tasks' = unfinished_tasks - 1
    /\ pc' = "stop_purge"
    /\ UNCHANGED <<stop_ctx, settings, turn_live, got_text, tts_queue,
                   tts_stop_event, tts_thread, wpc, wjob, main_speaking,
                   npushed, started, finished, purged, stop_snapshot>>
    /\ UNCHANGED <<svars, mvars, hvars>>
    /\ UNCHANGED avars

\* A Thread.join(timeout=1.0) that gives up on any worker.
ThreadJoinReturnsAlways(t) == TRUE

\* Thread.join(timeout=1.0) on thread t returns when t is dead, or gives up
\* on a worker that is inside a render (a render lasts as long as the
\* sentence); a worker between renders leaves its loop within the 0.1 s
\* poll, so the join waits for it.
ThreadJoinReturns(t) == ~IsAlive(t) \/ wpc[t] = "render"

\* stop_tts_thread: `if self.tts_thread and self.tts_thread.is_alive():
\* self.tts_thread.join(timeout=1.0)`, then the return: to
\* ask_ollama_with_context, which returns the answer, or to run's finally.
StopJoin ==
    /\ pc = "stop_join"
    /\ IF tts_thread = 0 THEN TRUE ELSE ThreadJoinReturns(tts_thread)
    /\ pc' = IF stop_ctx = "turn" THEN "returned" ELSE "ended"
    /\ UNCHANGED <<stop_ctx, settings, turn_live, got_text, tts_queue,
                   unfinished_tasks, tts_stop_event, tts_thread, wpc, wjob,
                   main_speaking, npushed, started, finished, purged,
                   stop_snapshot>>
    /\ UNCHANGED <<svars, mvars, hvars>>
    /\ UNCHANGED avars

\* A run that stores whatever ask_ollama_with_context returned.
StoresAnswerAlways == TRUE

\* run: `if response and response.strip():`.
StoresAnswer == got_text

\* run, after ask_ollama_with_context returned: a non-blank answer is
\* stored (memory.add_exchange on the list history, then last_response)
\* and, unless it was spoken during streaming, spoken now by speak_text on
\* the main thread.  A blank answer is reported and nothing is stored.
Returned ==
    /\ pc = "returned"
    /\ IF StoresAnswer
       THEN /\ nadded < MaxStored
            /\ nadded' = nadded + 1
            /\ mem_before' = MemorySnapshot
            /\ conversation_history' =
                   ListOf(TrimHistory(conversation_history.items
                                          \o ExchangeMessages(nadded + 1)))
            /\ mem_op' = [op |-> "add_exchange", result |-> TRUE]
            /\ adds_since_empty' = IF adds_since_empty = NotCounted
                                   THEN NotCounted
                                   ELSE adds_since_empty + 1
            /\ last_response' = "answer"
            /\ IF /\ ~(use_streaming /\ speak_while_streaming /\ tts_available)
                  /\ tts_available
                  /\ SpeakTextRenders
               THEN pc' = "speak" /\ main_speaking' = TRUE
               ELSE pc' = "prompt" /\ UNCHANGED main_speaking
       ELSE /\ pc' = "prompt"
            /\ UNCHANGED <<last_response, main_speaking, nadded, mem_before,
                           conversation_history, mem_op, adds_since_empty>>
    /\ UNCHANGED <<stop_ctx, use_streaming, speak_while_streaming,
                   tts_available, muted, turn_live, got_text, tts_queue,
                   unfinished_tasks, tts_stop_event, tts_thread, wpc, wjob,
                   npushed, started, finished, purged, stop_snapshot>>
    /\ UNCHANGED <<system_prompt, max_history, conversation_start_time, now,
                   disk, disk_saved>>
    /\ UNCHANGED <<svars, hvars>>
    /\ tts_engine' = IF pc' = "speak"
                     THEN [tts_engine EXCEPT ![0] = RenderEngine]
                     ELSE tts_engine
    /\ UNCHANGED <<audio_settings, audio_at_get, ncommands>>

\* speak_text: _speak_text_engine returns on the main thread.
SpeakEnd ==
    /\ pc = "speak"
    /\ main_speaking' = FALSE
    /\ pc' = "prompt"
    /\ UNCHANGED <<stop_ctx, settings, turn_live, got_text, tts_queue,
                   unfinished_tasks, tts_stop_event, tts_thread, wpc, wjob,
                   npushed, started, finished, purged, stop_snapshot>>
    /\ UNCHANGED <<svars, mvars, hvars>>
    /\ tts_engine' = [tts_engine EXCEPT ![0] = NoEngine]
    /\ UNCHANGED <<audio_settings, audio_at_get, ncommands>>

\* handle_command 'repeat': speak_text(last_response) when there is one.
CmdRepeat ==
    /\ pc = "prompt"
    /\ IF last_response # "" /\ SpeakTextRenders
       THEN pc' = "speak" /\ main_speaking' = TRUE
       ELSE UNCHANGED <<pc, main_speaking>>
    /\ UNCHANGED <<stop_ctx, settings, turn_live, got_text, tts_queue,
                   unfinished_tasks, tts_stop_event, tts_thread, wpc, wjob,
                   npushed, started, finished, purged, stop_snapshot>>
    /\ UNCHANGED <<svars, mvars, hvars>>
    /\ tts_engine' = IF pc' = "speak"
                     THEN [tts_engine EXCEPT ![0] = RenderEngine]
                     ELSE tts_engine
    /\ UNCHANGED <<audio_settings, audio_at_get, ncommands>>

\* handle_command 'test_tts': speak_text of a fixed sample.
CmdTestTts ==
    /\ pc = "prompt"
    /\ IF SpeakTextRenders
       THEN pc' = "speak" /\ main_speaking' = TRUE
       ELSE UNCHANGED <<pc, main_speaking>>
    /\ UNCHANGED <<stop_ctx, settings, turn_live, got_text, tts_queue,
                   unfinished_tasks, tts_stop_event, tts_thread, wpc, wjob,
                   npushed, started, finished, purged, stop_snapshot>>
    /\ UNCHANGED <<svars, mvars, hvars>>
    /\ tts_engine' = IF pc' = "speak"
                     THEN [tts_engine EXCEPT ![0] = RenderEngine]
                     ELSE tts_engine
    /\ UNCHANGED <<audio_settings, audio_at_get, ncommands>>

\* handle_command 'stream'.
CmdStream ==
    /\ pc = "prompt"
    /\ use_streaming' = ~use_streaming
    /\ UNCHANGED <<pc, stop_ctx, speak_while_streaming, tts_available, muted,
                   last_response, turn_live, got_text, tts_queue,
                   unfinished_tasks, tts_stop_event, tts_thread, wpc, wjob,
                   main_speaking, npushed, started, finished, purged,
                   stop_snapshot>>
    /\ UNCHANGED <<svars, mvars, hvars>>
    /\ UNCHANGED avars

\* handle_command 'live_tts'.
CmdLiveTts ==
    /\ pc = "prompt"
    /\ speak_while_streaming' = ~speak_while_streaming
    /\ UNCHANGED <<pc, stop_ctx, use_streaming, tts_available, muted,
                   last_response, turn_live, got_text, tts_queue,
                   unfinished_tasks, tts_stop_event, tts_thread, wpc, wjob,
                   main_speaking, npushed, started, finished, purged,
                   stop_snapshot>>
    /\ UNCHANGED <<svars, mvars, hvars>>
    /\ UNCHANGED avars

\* handle_command 'mute' / 'unmute' (m is the state asked for): mute
\* keeps the volume in volume_before_mute and sets it to 0.0; unmute puts
\* it back.  Asking for the state already there changes nothing.
CmdMute(m) ==
    /\ pc = "prompt"
    /\ muted' = m
    /\ IF m /\ ~muted
       THEN volume_before_mute' = volume /\ volume' = 0
       ELSE IF ~m /\ muted
       THEN volume' = volume_before_mute /\ UNCHANGED volume_before_mute
       ELSE UNCHANGED <<volume, volume_before_mute>>
    /\ UNCHANGED <<pc, stop_ctx, use_streaming, speak_while_streaming,
                   tts_available, last_response, turn_live, got_text,
                   tts_queue, unfinished_tasks, tts_stop_event, tts_thread,
                   wpc, wjob, main_speaking, npushed, started, finished,
                   purged, stop_snapshot>>
    /\ UNCHANGED <<svars, mvars, hvars>>
    /\ UNCHANGED <<TTS_ENGINE, speech_rate, current_voice_id, tts_engine,
                   audio_at_get, ncommands>>

\* What a rate, volume or voice command leaves alone.
CommandFrame ==
    /\ pc = "prompt"
    /\ ncommands < MaxCommands
    /\ ncommands' = ncommands + 1
    /\ UNCHANGED <<pc, stop_ctx, use_streaming, speak_while_streaming,
                   tts_available, last_response, turn_live, got_text,
                   tts_queue, unfinished_tasks, tts_stop_event, tts_thread,
                   wpc, wjob, main_speaking, npushed, started, finished,
                   purged, stop_snapshot>>
    /\ UNCHANGED <<svars, mvars, hvars>>
    /\ UNCHANGED <<TTS_ENGINE, tts_engine, audio_at_get>>

\* handle_command 'faster'.
CmdFaster ==
    /\ CommandFrame
    /\ speech_rate' = Min(MaxRate, speech_rate + RateStep)
    /\ UNCHANGED <<muted, volume, volume_before_mute, current_voice_id>>

\* handle_command 'slower'.
CmdSlower ==
    /\ CommandFrame
    /\ speech_rate' = Max(MinRate, speech_rate - RateStep)
    /\ UNCHANGED <<muted, volume, volume_before_mute, current_voice_id>>

\* handle_command 'louder'.
CmdLouder ==
    /\ CommandFrame
    /\ volume' = Min(FullVolume, volume + 1)
    /\ UNCHANGED <<muted, speech_rate, volume_before_mute, current_voice_id>>

\* handle_command 'quieter'.
CmdQuieter ==
    /\ CommandFrame
    /\ volume' = Max(0, volume - 1)
    /\ UNCHANGED <<muted, speech_rate, volume_before_mute, current_voice_id>>

\* handle_command 'volume x': a value in 0.0..1.0 is assigned and unmutes;
\* any other is refused.
CmdVolume(new_volume) ==
    /\ CommandFrame
    /\ IF 0 <= new_volume /\ new_volume <= FullVolume
       THEN volume' = new_volume /\ muted' = FALSE
       ELSE UNCHANGED <<volume, muted>>
    /\ UNCHANGED <<speech_rate, volume_before_mute, current_voice_id>>

\* handle_command 'voice N': with pyttsx3 and 0 <= N < len(voices) the
\* voice's id is kept; with SAPI nothing is done.
CmdVoice(voice_num) ==
    /\ CommandFrame
    /\ IF TTS_ENGINE = "pyttsx3" /\ 0 <= voice_num /\ voice_num < NVoices
       THEN current_voice_id' = voice_num + 1
       ELSE UNCHANGED current_voice_id
    /\ UNCHANGED <<muted, speech_rate, volume, volume_before_mute>>

\* run: 'exit' (or EOF) breaks the loop; KeyboardInterrupt breaks it from
\* inside a turn.  The finally clause calls stop_tts_thread.
Exit ==
    /\ pc \in {"prompt", "stream", "join"}
    /\ pc' = "stop_call"
    /\ stop_ctx' = "exit"
    /\ UNCHANGED <<settings, turn_live, got_text, tts_queue,
                   unfinished_tasks, tts_stop_event, tts_thread, wpc, wjob,
                   main_speaking, npushed, started, finished, purged,
                   stop_snapshot>>
    /\ UNCHANGED <<svars, mvars, hvars>>
    /\ UNCHANGED avars

\* ------------------------------------------------------ the specification
\* No value: ask_ollama_with_context has not returned one.
NoValue == <<"<no value>">>

\* ConversationMemory.__init__: `max_history: int = 50`.
DefaultMaxHistory == 50

\* The memory file when none exists.
MissingFile == [kind |-> "missing"]

\* disk_saved while the file at the path was not written by save_memory.
NotSaved == [saved |-> FALSE, system_prompt |-> "",
             conversation_history |-> ListOf(<<>>)]

\* ConversationMemory.__init__ with the defaults, no file, clock at 0.
MemIdle ==
    /\ system_prompt = "default"
    /\ conversation_history = ListOf(<<>>)
    /\ max_history = DefaultMaxHistory
    /\ conversation_start_time = 0
    /\ now = 0
    /\ disk = MissingFile
    /\ nadded = 0
    /\ mem_op = [op |-> "init", result |-> TRUE]
    /\ mem_before = [system_prompt |-> "default",
                     conversation_history |-> ListOf(<<>>),
                     conversation_start_time |-> 0]
    /\ adds_since_empty = 0
    /\ disk_saved = NotSaved

\* The character-level variables before a turn's streaming loop begins:
\* `full_response = ""`, `text_buffer = ""`.
StreamIdle ==
    /\ full_response = <<>>
    /\ text_buffer = <<>>
    /\ jobs = <<>>
    /\ fragments = <<>>
    /\ last_line = [kind |-> "none"]
    /\ turn_error = "none"
    /\ response = NoValue
    /\ flushed = <<>>

\* OllamaTTS.__init__ (and main's --mute).
Init ==
    /\ pc = "prompt"
    /\ stop_ctx = "turn"
    /\ use_streaming = TRUE
    /\ speak_while_streaming = TRUE
    /\ tts_available \in BOOLEAN
    /\ muted \in BOOLEAN
    /\ last_response = ""
    /\ turn_live = FALSE
    /\ got_text = FALSE
    /\ tts_queue = <<>>
    /\ unfinished_tasks = 0
    /\ tts_stop_event = FALSE
    /\ tts_thread = 0
    /\ wpc = [t \in Threads |-> "none"]
    /\ wjob = [t \in Threads |-> 0]
    /\ main_speaking = FALSE
    /\ npushed = 0
    /\ started = <<>>
    /\ finished = {}
    /\ purged = {}
    /\ stop_snapshot = {}
    /\ last_failed = 0
    /\ stop_entry = NotStopped
    /\ raise_snapshot = {}
    /\ StreamIdle
    /\ MemIdle
    /\ AudioInit(IF tts_available THEN "pyttsx3" ELSE "none",
                 DefaultRate, FullVolume)

Next ==
    \/ \E ok \in BOOLEAN, nonblank \in BOOLEAN : Ask(ok, nonblank)
    \/ \E sentence \in BOOLEAN : StreamChunk(sentence)
    \/ \E flush \in BOOLEAN : StreamDone(flush)
    \/ StreamRaise
    \/ TtsQueueJoin
    \/ StopSetEvent
    \/ StopPurge
    \/ StopTaskDone
    \/ StopJoin
    \/ Returned
    \/ SpeakEnd
    \/ CmdRepeat
    \/ CmdTestTts
    \/ CmdStream
    \/ CmdLiveTts
    \/ \E m \in BOOLEAN : CmdMute(m)
    \/ Exit
    \/ \E t \in Threads : WorkerCheck(t)
    \/ \E t \in Threads : WorkerGet(t)
    \/ \E t \in Threads, ok \in BOOLEAN : WorkerRenderDone(t, ok)

Spec == Init /\ [][Next]_vars

\* The worker is a thread of its own: while it is alive the interpreter
\* keeps scheduling it, and a render comes to an end.
WorkerFairness ==
    \A t \in Threads :
        /\ WF_vars(WorkerCheck(t))
        /\ WF_vars(WorkerGet(t))
        /\ WF_vars(\E ok \in BOOLEAN : WorkerRenderDone(t, ok))

SpecLive == Init /\ [][Next]_vars /\ WorkerFairness

\* ============================================================ SpecAudio
\* The prompt of a session started with some --rate on either engine:
\* just after construction, or after a live turn whose stream raised and
\* left its jobs queued with the worker alive.
InitAudio ==
    /\ pc = "prompt"
    /\ stop_ctx = "turn"
    /\ use_streaming = TRUE
    /\ speak_while_streaming = TRUE
    /\ tts_available = TRUE
    /\ muted = FALSE
    /\ last_response = ""
    /\ npushed \in 0..MaxQueued
    /\ turn_live = (npushed > 0)
    /\ got_text = (npushed > 0)
    /\ tts_queue = [i \in 1..npushed |-> i]
    /\ unfinished_tasks = npushed
    /\ tts_stop_event = FALSE
    /\ tts_thread = IF npushed > 0 THEN 1 ELSE 0
    /\ wpc = [t \in Threads |->
                 IF npushed > 0 /\ t = 1 THEN "check" ELSE "none"]
    /\ wjob = [t \in Threads |-> 0]
    /\ main_speaking = FALSE
    /\ started = <<>>
    /\ finished = {}
    /\ purged = {}
    /\ stop_snapshot = {}
    /\ last_failed = 0
    /\ stop_entry = NotStopped
    /\ raise_snapshot = 1..npushed
    /\ StreamIdle
    /\ MemIdle
    /\ \E engine \in {"pyttsx3", "sapi"}, rate \in RateArgs :
           AudioInit(engine, rate, FullVolume)

NextAudio ==
    \/ CmdFaster
    \/ CmdSlower
    \/ CmdLouder
    \/ CmdQuieter
    \/ \E m \in BOOLEAN : CmdMute(m)
    \/ \E new_volume \in VolumeArgs : CmdVolume(new_volume)
    \/ \E voice_num \in 0..NVoices : CmdVoice(voice_num)
    \/ \E t \in Threads : WorkerCheck(t)
    \/ \E t \in Threads : WorkerGet(t)
    \/ \E t \in Threads, ok \in BOOLEAN : WorkerRenderDone(t, ok)

SpecAudio == InitAudio /\ [][NextAudio]_vars

\* =========================================================== SpecStream
\* Texts are sequences of one-character strings.

\* Total length of the generated 'response' texts of one turn.
MaxText == 4

Chars == {"a", ".", " "}

\* The texts of length 0..n over Chars.
TextsUpTo(n) == UNION {[1..k -> Chars] : k \in 0..n}

\* The regex class [.!?].
IsTerminator(c) == c \in {".", "!", "?"}

\* The regex class \s (which holds \n), and what str.strip() removes.
IsSpace(c) == c \in {" ", "\n", "\t", "\r"}

\* str.strip().
Strip(s) ==
    IF \A i \in 1..Len(s) : IsSpace(s[i])
    THEN <<>>
    ELSE LET first == CHOOSE i \in 1..Len(s) :
                          ~IsSpace(s[i]) /\ \A k \in 1..(i - 1) : IsSpace(s[k])
             last == CHOOSE i \in 1..Len(s) :
                          ~IsSpace(s[i]) /\ \A k \in (i + 1)..Len(s) : IsSpace(s[k])
         IN  SubSeq(s, first, last)

\* Where the greedy run [.!?]+ that begins at i ends.
TerminatorRunEnd(s, i) ==
    CHOOSE e \in i..Len(s) :
        /\ \A k \in i..e : IsTerminator(s[k])
        /\ e = Len(s) \/ ~IsTerminator(s[e + 1])

\* Where the greedy run [\s\n]* that begins at i ends (i - 1 when empty).
SpaceRunEnd(s, i) ==
    CHOOSE e \in (i - 1)..Len(s) :
        /\ \A k \in i..e : IsSpace(s[k])
        /\ e = Len(s) \/ ~IsSpace(s[e + 1])

\* extract_sentences: the loop over re.finditer(r'[.!?]+[\s\n]*', buffer),
\* scanning from pos with last_end characters consumed, then
\* `remaining = text_buffer[last_end:].strip()`.
RECURSIVE ScanSentences(_, _, _, _)
ScanSentences(buffer, pos, last_end, sentences) ==
    IF pos > Len(buffer)
    THEN [sentences |-> sentences,
          remaining |-> Strip(SubSeq(buffer, last_end + 1, Len(buffer)))]
    ELSE IF IsTerminator(buffer[pos])
    THEN LET match_end == SpaceRunEnd(buffer, TerminatorRunEnd(buffer, pos) + 1)
             sentence == Strip(SubSeq(buffer, last_end + 1, match_end))
         IN  ScanSentences(buffer, match_end + 1, match_end,
                           IF sentence # <<>>
                           THEN Append(sentences, sentence)
                           ELSE sentences)
    ELSE ScanSentences(buffer, pos + 1, last_end, sentences)

\* An extract_sentences that returns no residual text.
ExtractSentencesDropRemaining(buffer) ==
    [sentences |-> ScanSentences(buffer, 1, 0, <<>>).sentences,
     remaining |-> <<>>]

\* An extract_sentences that returns the whole buffer as the residual.
ExtractSentencesKeepBuffer(buffer) ==
    [sentences |-> ScanSentences(buffer, 1, 0, <<>>).sentences,
     remaining |-> Strip(buffer)]

\* extract_sentences(text_buffer) -> (sentences, remaining).
ExtractSentences(buffer) == ScanSentences(buffer, 1, 0, <<>>)

\* A speak_text_immediate that puts the text twice.
SpeakTextImmediateTwice(queue, text) ==
    IF ~tts_available \/ Strip(text) = <<>> \/ muted
    THEN queue
    ELSE Append(Append(queue, Strip(text)), Strip(text))

\* speak_text_immediate(text): the queue after the call.
SpeakTextImmediate(queue, text) ==
    IF ~tts_available \/ Strip(text) = <<>> \/ muted
    THEN queue
    ELSE Append(queue, Strip(text))

\* `for sentence in sentences: if sentence.strip():
\* self.speak_text_immediate(sentence)`.
RECURSIVE SpeakSentences(_, _)
SpeakSentences(queue, sentences) ==
    IF sentences = <<>>
    THEN queue
    ELSE SpeakSentences(
             IF Strip(Head(sentences)) # <<>>
             THEN SpeakTextImmediate(queue, Head(sentences))
             ELSE queue,
             Tail(sentences))

\* The lines response.iter_lines() can deliver.  kind: "empty" (b''),
\* "badutf8" (bytes that are not UTF-8), "badjson" (text that is not JSON),
\* "nonobject" (JSON that is not an object), "object".
PlainLine(kind) ==
    [kind |-> kind, has_response |-> FALSE, response |-> <<>>, done |-> FALSE]
ChunkLine(has_response, text, done) ==
    [kind |-> "object", has_response |-> has_response, response |-> text,
     done |-> done]

\* The scenario of three fragments and done.
SkyFragment1 == <<"T", "h", "e", " ", "s", "k", "y", " ", "i", "s", " ">>
SkyFragment2 == <<"b", "l", "u", "e", ".", " ", "I", "t", " ", "i", "s", " ">>
SkyFragment3 == <<"a", "l", "s", "o", " ", "v", "a", "s", "t", ".">>
SkyFragments == <<SkyFragment1, SkyFragment2, SkyFragment3>>
SkyLines ==
    <<ChunkLine(TRUE, SkyFragment1, FALSE), ChunkLine(TRUE, SkyFragment2, FALSE),
      ChunkLine(TRUE, SkyFragment3, TRUE)>>

\* The scenario of a sentence cut inside a word.
HelloFragment1 == <<"H", "e", "l", "l", "o", " ", "w", "o", "r">>
HelloFragment2 == <<"l", "d", ".">>
HelloFragments == <<HelloFragment1, HelloFragment2>>
HelloLines ==
    <<ChunkLine(TRUE, HelloFragment1, FALSE),
      ChunkLine(TRUE, HelloFragment2, FALSE)>>

\* The lines tried after `fragments` were read: every kind of line, with
\* generated 'response' texts while the turn's text stays within MaxText,
\* and the next line of a scenario while the turn follows it.
LinesToRead ==
    {PlainLine(k) : k \in {"empty", "badutf8", "badjson", "nonobject"}}
    \cup {ChunkLine(FALSE, <<>>, d) : d \in BOOLEAN}
    \cup {ChunkLine(TRUE, t, d) :
              t \in TextsUpTo(MaxText - Len(full_response)), d \in BOOLEAN}
    \cup {SkyLines[i] : i \in {k \in 1..Len(SkyLines) :
              fragments = SubSeq(SkyFragments, 1, k - 1)}}
    \cup {HelloLines[i] : i \in {k \in 1..Len(HelloLines) :
              fragments = SubSeq(HelloFragments, 1, k - 1)}}

\* What `json.loads(line.decode('utf-8'))` and the subscripting of its
\* result do with a line: "skip" (`if line:` fails), "continue"
\* (json.JSONDecodeError is caught), "raise" (UnicodeDecodeError from
\* decode, TypeError or AttributeError from `'response' in chunk` and
\* `chunk.get` on a non-object: none is caught in the method), "chunk".
DecodeLine(line) ==
    CASE line.kind = "empty" -> "skip"
      [] line.kind = "badjson" -> "continue"
      [] line.kind = "badutf8" -> "raise"
      [] line.kind = "nonobject" -> "raise"
      [] line.kind = "object" -> "chunk"

\* An accumulator that keeps the last text only.
AccumulateLast(acc, line) ==
    IF line.has_response THEN line.response ELSE acc

\* `if 'response' in chunk:` ... `full_response += text_chunk` and
\* `text_buffer += text_chunk`.
Accumulate(acc, line) ==
    IF line.has_response THEN acc \o line.response ELSE acc

\* One pass of `for line in response.iter_lines()`, and for a chunk with
\* done the rest of the method: the residual is spoken, the loop breaks
\* and full_response.strip() is returned.
ReadLine(line) ==
    /\ pc = "stream"
    /\ last_line' = line
    /\ IF DecodeLine(line) \in {"skip", "continue"}
       THEN UNCHANGED <<pc, full_response, text_buffer, jobs, fragments,
                        turn_error, response, flushed>>
       ELSE IF DecodeLine(line) = "raise"
       THEN /\ pc' = "prompt"
            /\ turn_error' = "decode"
            /\ UNCHANGED <<full_response, text_buffer, jobs, fragments,
                           response, flushed>>
       ELSE LET live == speak_while_streaming /\ tts_available
                full == Accumulate(full_response, line)
                buffer == Accumulate(text_buffer, line)
                extracted == ExtractSentences(buffer)
                buffer2 == IF line.has_response /\ live
                           THEN extracted.remaining
                           ELSE buffer
                queue2 == IF line.has_response /\ live
                          THEN SpeakSentences(jobs, extracted.sentences)
                          ELSE jobs
                queue3 == IF line.done /\ live /\ Strip(buffer2) # <<>>
                          THEN SpeakTextImmediate(queue2, buffer2)
                          ELSE queue2
            IN  /\ full_response' = full
                /\ text_buffer' = buffer2
                /\ jobs' = queue3
                /\ flushed' = SubSeq(queue3, Len(queue2) + 1, Len(queue3))
                /\ fragments' = IF line.has_response /\ line.response # <<>>
                                THEN Append(fragments, line.response)
                                ELSE fragments
                /\ IF line.done
                   THEN pc' = "returned" /\ response' = Strip(full)
                   ELSE UNCHANGED <<pc, response>>
                /\ UNCHANGED turn_error
    /\ UNCHANGED <<stop_ctx, settings, turn_live, got_text, tts_queue,
                   unfinished_tasks, tts_stop_event, tts_thread, wpc, wjob,
                   main_speaking, npushed, started, finished, purged,
                   stop_snapshot>>
    /\ UNCHANGED <<mvars, hvars>>
    /\ UNCHANGED avars

\* iter_lines raises a requests RequestException: the method re-raises it
\* as Exception("API request failed: ...") and returns nothing.
TransportFailure ==
    /\ pc = "stream"
    /\ last_line' = [kind |-> "transport"]
    /\ pc' = "prompt"
    /\ turn_error' = "transport"
    /\ UNCHANGED <<full_response, text_buffer, jobs, fragments, response,
                   flushed>>
    /\ UNCHANGED <<stop_ctx, settings, turn_live, got_text, tts_queue,
                   unfinished_tasks, tts_stop_event, tts_thread, wpc, wjob,
                   main_speaking, npushed, started, finished, purged,
                   stop_snapshot>>
    /\ UNCHANGED <<mvars, hvars>>
    /\ UNCHANGED avars

\* iter_lines is exhausted without a done chunk: the loop ends and
\* full_response.strip() is returned.
EndOfLines ==
    /\ pc = "stream"
    /\ last_line' = [kind |-> "end"]
    /\ pc' = "returned"
    /\ response' = Strip(full_response)
    /\ UNCHANGED <<full_response, text_buffer, jobs, fragments, turn_error,
                   flushed>>
    /\ UNCHANGED <<stop_ctx, settings, turn_live, got_text, tts_queue,
                   unfinished_tasks, tts_stop_event, tts_thread, wpc, wjob,
                   main_speaking, npushed, started, finished, purged,
                   stop_snapshot>>
    /\ UNCHANGED <<mvars, hvars>>
    /\ UNCHANGED avars

\* A streaming turn at its first line, under any audio settings.
InitStream ==
    /\ pc = "stream"
    /\ stop_ctx = "turn"
    /\ use_streaming = TRUE
    /\ speak_while_streaming \in BOOLEAN
    /\ tts_available \in BOOLEAN
    /\ muted \in BOOLEAN
    /\ last_response = ""
    /\ turn_live = (speak_while_streaming /\ tts_available)
    /\ got_text = FALSE
    /\ tts_queue = <<>>
    /\ unfinished_tasks = 0
    /\ tts_stop_event = FALSE
    /\ tts_thread = 0
    /\ wpc = [t \in Threads |-> "none"]
    /\ wjob = [t \in Threads |-> 0]
    /\ main_speaking = FALSE
    /\ npushed = 0
    /\ started = <<>>
    /\ finished = {}
    /\ purged = {}
    /\ stop_snapshot = {}
    /\ last_failed = 0
    /\ stop_entry = NotStopped
    /\ raise_snapshot = {}
    /\ StreamIdle
    /\ MemIdle
    /\ AudioInit(IF tts_available THEN "pyttsx3" ELSE "none",
                 DefaultRate, FullVolume)

NextStream ==
    \/ \E line \in LinesToRead : ReadLine(line)
    \/ TransportFailure
    \/ EndOfLines

SpecStream == InitStream /\ [][NextStream]_vars

\* ============================================================== SpecMem
\* Largest max_history (--max-memory) tried.
MaxM == 3
\* Exchanges in a memory file prepared outside the session.
MaxFileExchanges == 2
\* Ticks of the clock.
MaxClock == 1

\* The messages of exchanges first..last in order.
RECURSIVE ExchangeRun(_, _)
ExchangeRun(first, last) ==
    IF first > last
    THEN <<>>
    ELSE ExchangeMessages(first) \o ExchangeRun(first + 1, last)

\* A memory file written without its conversation_history key.
ObjectFileWithoutHistory(has_prompt, prompt, history, time_kind, start_time) ==
    [kind |-> "object", has_prompt |-> has_prompt, prompt |-> prompt,
     history |-> [kind |-> "absent", items |-> <<>>], time_kind |-> time_kind,
     start_time |-> start_time]

\* A memory file that holds a JSON object.  Each key may be absent;
\* conversation_history may be null; conversation_start_time may be a
\* string datetime.fromisoformat rejects ("invalid").
ObjectFile(has_prompt, prompt, history, time_kind, start_time) ==
    [kind |-> "object", has_prompt |-> has_prompt, prompt |-> prompt,
     history |-> history, time_kind |-> time_kind, start_time |-> start_time]

AbsentValue == [kind |-> "absent", items |-> <<>>]

\* Files written outside the session: not JSON, JSON that is not an
\* object, {}, an object whose history is null, a list that is not made of
\* whole exchanges, and the saved memory of other sessions (exchanges
\* numbered from 101).
ExternalFiles ==
    {[kind |-> "garbage"], [kind |-> "nonobject"]}
    \cup {ObjectFile(FALSE, "", AbsentValue, "absent", 0)}
    \cup {ObjectFile(TRUE, "custom", NoneValue, "valid", 0)}
    \cup {ObjectFile(TRUE, "custom", ListOf(<<Message("assistant", 101)>>),
                     "invalid", 0)}
    \cup {ObjectFile(TRUE, "custom", ListOf(ExchangeRun(101, 100 + k)), "valid", 0) :
              k \in 0..MaxFileExchanges}

\* add_exchange(user_message, assistant_response) for exchange number
\* nadded + 1.  On a history that is not a list `.append` raises
\* AttributeError and nothing is stored.
AddExchange ==
    /\ nadded < MaxAdds
    /\ nadded' = nadded + 1
    /\ mem_before' = MemorySnapshot
    /\ IF conversation_history.kind = "list"
       THEN /\ conversation_history' =
                   ListOf(TrimHistory(conversation_history.items
                                          \o ExchangeMessages(nadded + 1)))
            /\ mem_op' = [op |-> "add_exchange", result |-> TRUE]
            /\ adds_since_empty' = IF adds_since_empty = NotCounted
                                   THEN NotCounted
                                   ELSE adds_since_empty + 1
       ELSE /\ UNCHANGED <<conversation_history, adds_since_empty>>
            /\ mem_op' = [op |-> "add_exchange", result |-> FALSE]
    /\ UNCHANGED <<system_prompt, max_history, conversation_start_time, now,
                   disk, disk_saved>>
    /\ UNCHANGED <<cvars, svars, hvars>>
    /\ UNCHANGED avars

\* clear_history.
ClearHistory ==
    /\ mem_before' = MemorySnapshot
    /\ conversation_history' = ListOf(<<>>)
    /\ conversation_start_time' = now
    /\ mem_op' = [op |-> "clear_history", result |-> TRUE]
    /\ adds_since_empty' = 0
    /\ UNCHANGED <<system_prompt, max_history, now, disk, nadded, disk_saved>>
    /\ UNCHANGED <<cvars, svars, hvars>>
    /\ UNCHANGED avars

\* A set_system_prompt that also empties the history.
SetSystemPromptAndClear(new_prompt) ==
    /\ mem_before' = MemorySnapshot
    /\ system_prompt' = new_prompt
    /\ conversation_history' = ListOf(<<>>)
    /\ mem_op' = [op |-> "set_system_prompt", result |-> TRUE,
                  arg |-> new_prompt]
    /\ UNCHANGED <<max_history, conversation_start_time, now, disk, nadded,
                   adds_since_empty, disk_saved>>
    /\ UNCHANGED <<cvars, svars, hvars>>
    /\ UNCHANGED avars

\* set_system_prompt(new_prompt).
SetSystemPrompt(new_prompt) ==
    /\ mem_before' = MemorySnapshot
    /\ system_prompt' = new_prompt
    /\ mem_op' = [op |-> "set_system_prompt", result |-> TRUE,
                  arg |-> new_prompt]
    /\ UNCHANGED <<conversation_history, max_history,
                   conversation_start_time, now, disk, nadded,
                   adds_since_empty, disk_saved>>
    /\ UNCHANGED <<cvars, svars, hvars>>
    /\ UNCHANGED avars

\* save_memory(filepath): json.dump of system_prompt, conversation_history,
\* conversation_start_time.isoformat() and saved_at; when open() raises
\* (ok = FALSE) it returns False and the file is as before.
SaveMemory(ok) ==
    /\ mem_before' = MemorySnapshot
    /\ IF ok
       THEN /\ disk' = ObjectFile(TRUE, system_prompt, conversation_history,
                                  "valid", conversation_start_time)
            /\ disk_saved' = [saved |-> TRUE,
                              system_prompt |-> system_prompt,
                              conversation_history |-> conversation_history]
       ELSE UNCHANGED <<disk, disk_saved>>
    /\ mem_op' = [op |-> "save_memory", result |-> ok]
    /\ UNCHANGED <<system_prompt, conversation_history, max_history,
                   conversation_start_time, now, nadded, adds_since_empty>>
    /\ UNCHANGED <<cvars, svars, hvars>>
    /\ UNCHANGED avars

\* load_memory(filepath).  A missing file (FileNotFoundError), a file that
\* is not JSON and a JSON value without .get return False before anything
\* is assigned.  For an object the three fields are assigned in turn, then
\* `len(self.conversation_history)` raises TypeError on None and the
\* method returns False.
LoadMemory ==
    /\ mem_before' = MemorySnapshot
    /\ IF disk.kind # "object"
       THEN /\ mem_op' = [op |-> "load_memory", result |-> FALSE]
            /\ UNCHANGED <<system_prompt, conversation_history,
                           conversation_start_time>>
       ELSE /\ system_prompt' =
                   IF disk.has_prompt THEN disk.prompt ELSE "default"
            /\ conversation_history' =
                   IF disk.history.kind = "absent"
                   THEN ListOf(<<>>)
                   ELSE disk.history
            /\ conversation_start_time' =
                   IF disk.time_kind = "valid" THEN disk.start_time ELSE now
            /\ mem_op' = [op |-> "load_memory",
                          result |-> (disk.history.kind # "None")]
    /\ adds_since_empty' = IF disk.kind = "object" THEN NotCounted
                           ELSE adds_since_empty
    /\ UNCHANGED <<max_history, now, disk, nadded, disk_saved>>
    /\ UNCHANGED <<cvars, svars, hvars>>
    /\ UNCHANGED avars

\* A file prepared outside the session is put at the path, or the file is
\* removed.
PutFile(file) ==
    /\ disk' = file
    /\ disk_saved' = NotSaved
    /\ UNCHANGED <<system_prompt, conversation_history, max_history,
                   conversation_start_time, now, nadded, mem_op, mem_before,
                   adds_since_empty>>
    /\ UNCHANGED <<cvars, svars, hvars>>
    /\ UNCHANGED avars

\* Time passes.
Tick ==
    /\ now < MaxClock
    /\ now' = now + 1
    /\ UNCHANGED <<system_prompt, conversation_history, max_history,
                   conversation_start_time, disk, nadded, mem_op, mem_before,
                   adds_since_empty, disk_saved>>
    /\ UNCHANGED <<cvars, svars, hvars>>
    /\ UNCHANGED avars

\* ConversationMemory(system_prompt, max_history) for a --max-memory value
\* and an optional --system-prompt.
InitMem ==
    /\ pc = "prompt"
    /\ stop_ctx = "turn"
    /\ use_streaming = TRUE
    /\ speak_while_streaming = TRUE
    /\ tts_available = TRUE
    /\ muted = FALSE
    /\ last_response = ""
    /\ turn_live = FALSE
    /\ got_text = FALSE
    /\ tts_queue = <<>>
    /\ unfinished_tasks = 0
    /\ tts_stop_event = FALSE
    /\ tts_thread = 0
    /\ wpc = [t \in Threads |-> "none"]
    /\ wjob = [t \in Threads |-> 0]
    /\ main_speaking = FALSE
    /\ npushed = 0
    /\ started = <<>>
    /\ finished = {}
    /\ purged = {}
    /\ stop_snapshot = {}
    /\ last_failed = 0
    /\ stop_entry = NotStopped
    /\ raise_snapshot = {}
    /\ StreamIdle
    /\ system_prompt \in {"default", "custom"}
    /\ conversation_history = ListOf(<<>>)
    /\ max_history \in 1..MaxM
    /\ conversation_start_time = 0
    /\ now = 0
    /\ disk = MissingFile
    /\ nadded = 0
    /\ mem_op = [op |-> "init", result |-> TRUE]
    /\ mem_before = [system_prompt |-> system_prompt,
                     conversation_history |-> ListOf(<<>>),
                     conversation_start_time |-> 0]
    /\ adds_since_empty = 0
    /\ disk_saved = NotSaved
    /\ AudioInit("pyttsx3", DefaultRate, FullVolume)

NextMem ==
    \/ AddExchange
    \/ ClearHistory
    \/ \E new_prompt \in {"default", "custom"} : SetSystemPrompt(new_prompt)
    \/ \E ok \in BOOLEAN : SaveMemory(ok)
    \/ LoadMemory
    \/ \E file \in ExternalFiles \cup {MissingFile} : PutFile(file)
    \/ Tick

SpecMem == InitMem /\ [][NextMem]_vars

\* ------------------------------------------------ claims checked on Spec
Range(q) == {q[i] : i \in 1..Len(q)}

\* C1: jobs are rendered in the order they were pushed: the renders begin
\* in increasing push number, and once a job has begun rendering, every job
\* pushed before it has left the queue and, if it was rendered, its render
\* has returned (no earlier job is still waiting or still being rendered).
C1_RenderInPushOrder ==
    /\ \A i, j \in 1..Len(started) : i < j => started[i] < started[j]
    /\ \A j \in Range(started) : \A i \in 1..(j - 1) :
          /\ i \notin Range(tts_queue)
          /\ i \in Range(started) => i \in finished

\* C1 witness: two jobs were rendered, the second after the first returned.
C1_Witness ==
    /\ Len(started) >= 2
    /\ started[1] \in finished
    /\ started[2] \in finished

\* C2: when ask_ollama_with_context returns from a live streaming turn,
\* every job pushed so far has been rendered to the end and no worker is
\* inside a render.
C2_ReturnAfterDrain ==
    (pc = "returned" /\ turn_live) =>
        /\ \A j \in 1..npushed : j \in finished
        /\ \A t \in Threads : wpc[t] # "render"

\* C2 witness: a live turn that pushed at least two jobs has returned.
C2_Witness == pc = "returned" /\ turn_live /\ npushed >= 2

\* C3 (as claimed): at most one _speak_text_engine call is in progress.
C3_AtMostOneRender == RendersInProgress <= 1

\* C4 (as claimed): no job that was in tts_queue when stop_tts_thread was
\* called is rendered afterwards.
C4_QueuedAtStopNeverRendered == stop_snapshot \cap Range(started) = {}

\* C5 (as claimed): when stop_tts_thread has returned (to the live turn that
\* called it, or to run's finally), no worker thread is alive.
C5_StopReturnsWithWorkerDead ==
    (pc = "ended" \/ (pc = "returned" /\ turn_live)) =>
        \A t \in Threads : ~IsAlive(t)

\* C14: an answer is narrated through one path.  A turn outside the live
\* branch pushes nothing while its stream is read; when a live turn has
\* returned, run does not narrate the answer again; when any other turn has
\* returned a non-blank answer (audio available and not muted), run narrates
\* it once, as one unit, on the main thread and then prompts again.
C14_Step ==
    /\ (pc = "stream" /\ ~turn_live) => npushed' = npushed
    /\ (pc = "returned" /\ pc' # "returned" /\ turn_live) =>
           (pc' = "prompt" /\ ~main_speaking')
    /\ (pc = "returned" /\ pc' # "returned" /\ ~turn_live /\ got_text
           /\ tts_available /\ ~muted) =>
           (pc' = "speak" /\ main_speaking')
    /\ (pc = "speak" /\ pc' # "speak") => (pc' = "prompt" /\ ~main_speaking')
C14_OneNarrationPath == [][C14_Step]_vars

\* C14 witness: after a live turn whose jobs were all rendered, the answer
\* of a later turn with live narration off is being narrated after the turn.
C14_Witness ==
    /\ pc = "speak" /\ ~turn_live /\ got_text /\ ~speak_while_streaming
    /\ npushed >= 1
    /\ \A j \in 1..npushed : j \in finished

\* C15: a job whose render failed is marked done like any other: the
\* worker that leaves a render calls task_done for the job and is back at
\* its loop test, a failed job is counted as done, and once nothing is
\* queued, being rendered or held by stop_tts_thread's purge,
\* tts_queue.join() is released.
C15_Step ==
    \A t \in Threads :
        (wpc[t] = "render" /\ wpc'[t] # "render") =>
            /\ wpc'[t] = "check"
            /\ wjob[t] \in finished'
            /\ unfinished_tasks' = unfinished_tasks - 1
C15_State ==
    /\ last_failed # 0 => last_failed \in finished
    /\ (/\ tts_queue = <<>>
        /\ \A t \in Threads : wpc[t] # "render"
        /\ pc # "stop_task_done") => JoinReleased
C15_FailedRenderIsDone == [](C15_State) /\ [][C15_Step]_vars

\* C15 witness: a live turn has returned from its drain although a render
\* failed, and a job pushed after the failed one was rendered.
C15_Witness ==
    /\ pc = "returned" /\ turn_live
    /\ last_failed # 0
    /\ \E k \in finished : k > last_failed

\* C16: while the stream is read, a sentence can always be pushed, whatever
\* the queue holds and whatever the worker is doing.
C16_PushNeverBlocks ==
    (pc = "stream" /\ Enqueues /\ npushed < MaxJobs) =>
        ENABLED StreamChunk(TRUE)

\* C16 witness: two jobs were pushed behind a render still in progress.
C16_Witness ==
    /\ pc = "stream"
    /\ Len(tts_queue) >= 2
    /\ \E t \in Threads : wpc[t] = "render"

\* The steps and the return of a stop_tts_thread call.
InStopOrBack ==
    \/ pc \in {"stop_purge", "stop_task_done", "stop_join", "ended"}
    \/ pc = "returned" /\ turn_live

\* C17: at most one worker thread is alive; start_tts_thread with a live
\* worker creates no thread and leaves the event alone; stop_tts_thread
\* called when the worker has already stopped leaves the queue, its
\* counter, the event and the thread as it found them.
C17_Step ==
    (pc = "prompt" /\ pc' = "stream" /\ ~NeedsNewThread) =>
        UNCHANGED <<tts_thread, wpc, tts_stop_event>>
C17_State ==
    /\ Cardinality({t \in Threads : IsAlive(t)}) <= 1
    /\ (InStopOrBack /\ stop_entry.stopped) =>
           /\ tts_queue = stop_entry.tts_queue
           /\ unfinished_tasks = stop_entry.unfinished_tasks
           /\ tts_stop_event = stop_entry.tts_stop_event
           /\ tts_thread = stop_entry.tts_thread
           /\ WorkerStopped
C17_StartStopIdempotent == [](C17_State) /\ [][C17_Step]_vars

\* C17 witness: stop_tts_thread has returned from a call made after the
\* worker of an earlier live turn, which rendered a job, had stopped.
C17_Witness ==
    /\ pc = "ended" /\ stop_entry.stopped
    /\ finished # {}

\* The session is ending: run's finally has called stop_tts_thread.
ShuttingDown ==
    /\ stop_ctx = "exit"
    /\ pc \in {"stop_call", "stop_purge", "stop_task_done", "stop_join", "ended"}

\* C19: every job that was waiting or being rendered when a stream raised
\* is rendered to its end, unless the session is shut down first: such a
\* job stays queued or in its render until it has been rendered, and again
\* and again all the jobs that were pending at the last raise have been
\* rendered.
C19_State ==
    \A j \in raise_snapshot :
        j \in Pending \/ j \in finished \/ ShuttingDown
C19_PendingAtRaiseRendered ==
    /\ [](C19_State)
    /\ []<>(raise_snapshot \subseteq finished \/ ShuttingDown)

\* C19 witness: two jobs were pending when the stream raised and both have
\* been rendered while the program waits at the prompt.
C19_Witness ==
    /\ pc = "prompt"
    /\ Cardinality(raise_snapshot) >= 2
    /\ raise_snapshot \subseteq finished

\* ------------------------------------------ claims checked on SpecStream
RECURSIVE Concat(_)
Concat(texts) == IF texts = <<>> THEN <<>> ELSE Head(texts) \o Concat(Tail(texts))

\* Segmenting a whole text at once: its sentences, then the flush of what
\* remains.
WholeTextSentences(text) ==
    LET whole == ExtractSentences(text)
    IN  whole.sentences \o
            (IF whole.remaining # <<>> THEN <<whole.remaining>> ELSE <<>>)

\* C6 (as claimed): after a transport failure in a stream that had
\* delivered text, the caller still receives the accumulated text.
C6_PartialAnswerReturned ==
    (turn_error = "transport" /\ full_response # <<>>) =>
        response \in {full_response, Strip(full_response)}

\* C7 (as claimed): a malformed line (not UTF-8, not JSON, or JSON that is
\* not an object) is skipped: the loop is still reading after it and the
\* turn has not ended in an error.
C7_MalformedLineSkipped ==
    last_line.kind \in {"badutf8", "badjson", "nonobject"} =>
        pc = "stream" /\ turn_error = "none"

SkySentence1 == <<"T", "h", "e", " ", "s", "k", "y", " ", "i", "s", " ", "b", "l", "u", "e", ".">>
SkySentence2 == <<"I", "t", " ", "i", "s", " ", "a", "l", "s", "o", " ", "v", "a", "s", "t", ".">>

\* C8 (as claimed): the three fragments "The sky is ", "blue. It is ",
\* "also vast." and done, with live narration on and audio not muted,
\* enqueue exactly "The sky is blue." and then "It is also vast.".
C8_SkyScenarioJobs ==
    (/\ fragments = SkyFragments
     /\ pc = "returned"
     /\ last_line.kind = "object" /\ last_line.done
     /\ speak_while_streaming /\ tts_available /\ ~muted) =>
        jobs = <<SkySentence1, SkySentence2>>

\* C9 (as claimed): when a live, unmuted turn ends with done, the jobs
\* pushed fragment by fragment (with the final flush) are the sentences of
\* the whole text segmented at once.
C9_FragmentationIndependent ==
    (/\ pc = "returned"
     /\ last_line.kind = "object" /\ last_line.done
     /\ speak_while_streaming /\ tts_available /\ ~muted) =>
        jobs = WholeTextSentences(Concat(fragments))

\* The turn ended on a chunk with done, in the live branch, audio not muted.
LiveTurnDone ==
    /\ pc = "returned"
    /\ last_line.kind = "object" /\ last_line.done
    /\ speak_while_streaming /\ tts_available /\ ~muted

\* C18: nothing is flushed before the done chunk; on done in a live,
\* unmuted turn the residual text_buffer, when it is not blank, is put as
\* one job, the last of the turn, and a blank residual puts nothing.
C18_FlushOnDone ==
    /\ pc = "stream" => flushed = <<>>
    /\ LiveTurnDone =>
           /\ flushed = IF Strip(text_buffer) # <<>>
                        THEN <<Strip(text_buffer)>>
                        ELSE <<>>
           /\ flushed # <<>> =>
                  /\ jobs # <<>>
                  /\ jobs[Len(jobs)] = Strip(text_buffer)

\* C18 witness: a sentence was pushed from the stream and the residual was
\* flushed behind it on done.
C18_Witness ==
    /\ LiveTurnDone
    /\ Len(jobs) >= 2
    /\ flushed # <<>>

\* C20: the answer returned by a turn that reached done is the
\* concatenation of the 'response' texts read, stripped at both ends,
\* whatever the narration settings.
C20_AnswerIsConcatenation ==
    (pc = "returned" /\ last_line.kind = "object" /\ last_line.done) =>
        response = Strip(Concat(fragments))

\* C20 witness: a live turn that pushed jobs returned the text of two
\* fragments, with white space stripped off.
C20_Witness ==
    /\ LiveTurnDone
    /\ Len(fragments) >= 2
    /\ jobs # <<>>
    /\ response # <<>>
    /\ response # Concat(fragments)

\* --------------------------------------------- claims checked on SpecMem
\* len(self.conversation_history) // 2, as get_memory_summary counts.
Exchanges == Len(conversation_history.items) \div 2

\* C10 (as claimed): the number of exchanges held never exceeds max_history.
C10_ExchangesWithinMax == Exchanges <= max_history

\* C11 (as claimed): max_history + 1 calls of add_exchange on an empty
\* history leave exactly max_history exchanges, the most recent ones: the
\* first exchange added is the only one evicted.
C11_MPlusOneAddsKeepM ==
    adds_since_empty = max_history + 1 =>
        conversation_history =
            ListOf(ExchangeRun(nadded - max_history + 1, nadded))

\* C12 (as claimed): when load_memory returns False, the system prompt, the
\* history and the start time are what they were before the call.
C12_FailedLoadLeavesMemory ==
    (mem_op.op = "load_memory" /\ ~mem_op.result) =>
        MemorySnapshot = mem_before

\* C13: load_memory of a file written by save_memory yields the system
\* prompt and the conversation history that were saved, whatever was done
\* to the memory between the two calls.
C13_SaveLoadRoundTrip ==
    (mem_op.op = "load_memory" /\ disk_saved.saved) =>
        /\ system_prompt = disk_saved.system_prompt
        /\ conversation_history = disk_saved.conversation_history

\* C13 witness: a history of two exchanges and a custom prompt came back
\* from the file after the memory had been cleared and its prompt reset.
C13_Witness ==
    /\ mem_op.op = "load_memory" /\ mem_op.result
    /\ disk_saved.saved
    /\ Len(disk_saved.conversation_history.items) = 4
    /\ disk_saved.system_prompt = "custom"
    /\ mem_before.conversation_history = ListOf(<<>>)
    /\ mem_before.system_prompt = "default"

\* C28: in every live turn, from start_tts_thread's return until
\* tts_queue.join() returns, the worker thread is alive and the stop event
\* is clear; and with the worker scheduled fairly and every render ending,
\* a turn waiting in tts_queue.join() is released.
C28_State ==
    (pc \in {"stream", "join"} /\ turn_live) =>
        /\ tts_thread # 0
        /\ IF tts_thread = 0 THEN FALSE ELSE IsAlive(tts_thread)
        /\ ~tts_stop_event
C28_LiveTurnJoinReturns ==
    /\ [](C28_State)
    /\ (pc = "join") ~> (pc # "join" \/ JoinReleased)

\* C28 witness: after an earlier turn's job was rendered and that turn
\* returned its answer, a later live turn waits in tts_queue.join() with a
\* job not yet done.
C28_Witness ==
    /\ pc = "join" /\ turn_live
    /\ last_response = "answer"
    /\ 1 \in finished
    /\ unfinished_tasks > 0
    /\ stop_entry = NotStopped

\* The jobs taken from the queue whose task_done is still to come: one per
\* worker inside a render, and the item the purge holds.
InFlight ==
    Cardinality({t \in Threads : wpc[t] = "render"})
        + (IF pc = "stop_task_done" THEN 1 ELSE 0)

\* C29: the count of unfinished tasks equals the queued jobs plus the jobs
\* in flight, is never negative, and is zero once the queue is empty and
\* nothing is in flight; every job pushed is queued, in flight, or was
\* given its one task_done by the worker or by the purge, never by both.
C29_QueueAccounting ==
    /\ unfinished_tasks = Len(tts_queue) + InFlight
    /\ unfinished_tasks >= 0
    /\ (tts_queue = <<>> /\ InFlight = 0) => unfinished_tasks = 0
    /\ finished \cap purged = {}
    /\ \A j \in 1..npushed :
           \/ j \in Range(tts_queue)
           \/ j \in Pending
           \/ j \in finished
           \/ j \in purged
    /\ npushed = unfinished_tasks + Cardinality(finished)
                     + Cardinality(purged)
                     - (IF pc = "stop_task_done" THEN 1 ELSE 0)

\* C29 witness: during the purge a worker is inside a render, one job has
\* been purged and another is still queued.
C29_Witness ==
    /\ pc = "stop_purge"
    /\ purged # {}
    /\ tts_queue # <<>>
    /\ \E t \in Threads : wpc[t] = "render"

\* C30: the memory and last_response change only when run stores a
\* non-blank answer, and then exactly one exchange, the turn's, is appended
\* and last_response is the answer; a turn whose stream raises and a turn
\* that returns a blank answer leave both as they were.
C30_Step ==
    /\ (<<mvars, last_response>>' # <<mvars, last_response>>) =>
           /\ pc = "returned" /\ got_text
           /\ nadded' = nadded + 1
           /\ conversation_history' =
                  ListOf(conversation_history.items
                             \o ExchangeMessages(nadded + 1))
           /\ last_response' = "answer"
           /\ UNCHANGED <<system_prompt, max_history>>
    /\ (pc = "returned" /\ got_text /\ pc' # "returned") =>
           nadded' = nadded + 1
    /\ (pc = "returned" /\ ~got_text) => UNCHANGED <<mvars, last_response>>
    /\ (pc = "stream" /\ pc' = ExceptResumesAt) =>
           UNCHANGED <<mvars, last_response>>
C30_FailedTurnLeavesMemory == [][C30_Step]_vars

\* C30 witness: one turn's stream raised with jobs pending, one turn's
\* answer was stored, and the last turn returned a blank answer: the
\* memory holds the one exchange.
C30_Witness ==
    /\ pc = "prompt"
    /\ raise_snapshot # {}
    /\ ~got_text
    /\ nadded = 1
    /\ conversation_history = ListOf(ExchangeMessages(1))
    /\ last_response = "answer"

\* C21 (as claimed): a render in progress on a worker uses the rate, the
\* volume and the voice that were current when its job was dequeued, and
\* is silent when audio was muted at that moment.
C21_AudioAtDequeueApplied ==
    \A t \in Threads :
        wpc[t] = "render" =>
            /\ tts_engine[t].rate = audio_at_get[t].rate
            /\ tts_engine[t].volume = audio_at_get[t].volume
            /\ tts_engine[t].voice = audio_at_get[t].voice
            /\ audio_at_get[t].muted => tts_engine[t].volume = 0

\* C23 (as claimed): the speech rate is within 50..300.
C23_RateWithinRange == MinRate <= speech_rate /\ speech_rate <= MaxRate

\* The turn narrates while streaming and audio is not muted.
LiveUnmuted == speak_while_streaming /\ tts_available /\ ~muted

\* C24 (as claimed): while the stream is open, text whose terminator run is
\* the last thing read is still in the residual buffer, not emitted.
C24_EmittedOnlyAfterBoundary ==
    (/\ pc = "stream" /\ LiveUnmuted
     /\ last_line.kind = "object" /\ last_line.has_response
     /\ last_line.response # <<>>
     /\ IsTerminator(last_line.response[Len(last_line.response)])) =>
        /\ text_buffer # <<>>
        /\ IsTerminator(text_buffer[Len(text_buffer)])

HasTerminator(text) == \E i \in 1..Len(text) : IsTerminator(text[i])

HelloSentence == HelloFragment1 \o HelloFragment2

\* C25: in a live, unmuted turn a first fragment without a terminator
\* pushes nothing, and once a second fragment is appended with no white
\* space at the cut the jobs are the sentences of the two fragments joined;
\* "Hello wor" then "ld." pushes the one job "Hello world.".
C25_SplitSentenceDetected ==
    (pc = "stream" /\ LiveUnmuted /\ fragments # <<>>
     /\ ~HasTerminator(fragments[1])) =>
        /\ Len(fragments) = 1 => jobs = <<>>
        /\ (/\ Len(fragments) = 2
            /\ ~IsSpace(fragments[1][Len(fragments[1])])
            /\ ~IsSpace(fragments[2][1])) =>
               jobs = ScanSentences(fragments[1] \o fragments[2],
                                    1, 0, <<>>).sentences
        /\ fragments = HelloFragments => jobs = <<HelloSentence>>

\* C25 witness: "Hello wor" and "ld." were read and "Hello world." is the
\* one job.
C25_Witness ==
    /\ pc = "stream" /\ LiveUnmuted
    /\ fragments = HelloFragments
    /\ jobs = <<HelloSentence>>
    /\ text_buffer = <<>>

\* A text without its white space.
NoSpace(text) == SelectSeq(text, LAMBDA c : ~IsSpace(c))

\* C26: in a live, unmuted turn the jobs pushed so far, in order, followed
\* by the residual buffer, spell the answer read so far (white space
\* aside); after done the jobs alone spell it.  So jobs follow the text's
\* order and no text is pushed twice.
C26_JobsSpellAnswerOnce ==
    LiveUnmuted =>
        /\ \A i \in 1..Len(jobs) : jobs[i] # <<>>
        /\ IF LiveTurnDone
           THEN NoSpace(Concat(jobs)) = NoSpace(full_response)
           ELSE NoSpace(Concat(jobs) \o text_buffer) = NoSpace(full_response)

\* C26 witness: two fragments gave a sentence from the stream and a
\* different residual flushed behind it.
C26_Witness ==
    /\ LiveTurnDone
    /\ Len(fragments) = 2
    /\ Len(jobs) = 2
    /\ jobs[1] # jobs[2]
    /\ flushed = <<jobs[2]>>

\* C22: set_system_prompt leaves the history and the start time as they
\* were; clear_history leaves the system prompt as it was, empties the
\* history and sets the start time to the clock's reading; max_history is
\* never changed.
C22_State ==
    /\ mem_op.op = "set_system_prompt" =>
           /\ system_prompt = mem_op.arg
           /\ conversation_history = mem_before.conversation_history
           /\ conversation_start_time = mem_before.conversation_start_time
    /\ mem_op.op = "clear_history" =>
           /\ system_prompt = mem_before.system_prompt
           /\ conversation_history = ListOf(<<>>)
C22_Step ==
    /\ max_history' = max_history
    /\ (mem_op'.op = "clear_history"
           /\ conversation_start_time' # conversation_start_time) =>
           conversation_start_time' = now
C27_HistoryIsSuffixOfAdds ==
    adds_since_empty # NotCounted =>
        \E first \in (nadded - adds_since_empty + 1)..(nadded + 1) :
            conversation_history = ListOf(ExchangeRun(first, nadded))

\* C27 witness: three exchanges were added and eviction left the last one.
C27_Witness ==
    /\ adds_since_empty = 3
    /\ max_history >= 2
    /\ conversation_history = ListOf(ExchangeRun(nadded, nadded))

\* C31 (as claimed): conversation_history is a list of even length whose
\* roles alternate user, assistant, user, assistant, ...
C31_HistoryWellFormed ==
    /\ conversation_history.kind = "list"
    /\ Len(conversation_history.items) % 2 = 0
    /\ \A i \in 1..Len(conversation_history.items) :
           conversation_history.items[i].role =
               IF i % 2 = 1 THEN "user" ELSE "assistant"

\* C32 (as claimed): when a live, unmuted turn's stream has ended, by a
\* chunk with done or by the line iterator running out, the jobs pushed
\* hold every character of the answer that is not white space.
C32_NoTextLostAtStreamEnd ==
    (/\ pc = "returned" /\ LiveUnmuted
     /\ \/ last_line.kind = "end"
        \/ last_line.kind = "object" /\ last_line.done) =>
        NoSpace(Concat(jobs)) = NoSpace(full_response)

=============================================================================
